---- MODULE Spec2Model ----
(***************************************************************************)
(* Connectivity of count matrices (msmtools.estimation.sparse.connectivity)*)
(*                                                                         *)
(* A count matrix C of shape M x M is a function on                        *)
(* (0..M-1) \X (0..M-1).  One-dimensional numpy arrays and Python lists    *)
(* are sequences: position p of the Python object is element p+1 of the    *)
(* sequence, the values (vertex numbers, labels) are kept 0-based.         *)
(* Every function of the module is an operator; a call of it is an action  *)
(* that takes the program from "ready" to the state holding its result.    *)
(***************************************************************************)
EXTENDS Integers, Sequences, FiniteSets, TLC

VARIABLES C, M, directed, dtraj, lag, pc, called_finder, labels, cc, lcc,
          lcc_given, C_cc, connected, error

vars == <<C, M, directed, dtraj, lag, pc, called_finder, labels, cc, lcc,
          lcc_given, C_cc, connected, error>>

\* Largest matrix size explored.
MaxM == 3
\* Largest weight of a matrix entry explored.
MaxW == 2
\* Longest discrete trajectory explored.
MaxT == 5
\* Largest lag time scanned (lags = [1,...,8] in the test).
MaxLag == 8
\* Number of discrete states of the test trajectories (states 0 and 1).
NStates == 2

Range(s) == {s[k] : k \in 1..Len(s)}

Vertices(n) == 0..(n - 1)

Matrices(n) == [Vertices(n) \X Vertices(n) -> 0..MaxW]

\* The 0 x 0 result of a call that has not produced a matrix.
NoMatrix == [p \in Vertices(0) \X Vertices(0) |-> 0]

(***************************************************************************)
(* csgraph.connected_components(C, directed, connection='strong')          *)
(*                                                                         *)
(* The routine belongs to scipy, not to this package.  It is modelled by   *)
(* what it documents: an edge is a nonzero entry; with directed = True the *)
(* components are the strongly connected ones; with directed = False the   *)
(* graph is taken as undirected and 'connection' is not referenced; the    *)
(* labels are 0..nc-1.  Which component gets which label is left open, so  *)
(* every assignment of the labels is a possible return value.  The empty   *)
(* graph has nc = 0 and an empty label array.                              *)
(***************************************************************************)

\* The finder as if 'strong' were applied whatever directed says.
Follows_AlwaysDirected(A, dir, i, j) == A[i, j] # 0

\* An edge the finder may follow from i to j: a nonzero entry C[i,j]; with
\* directed = False an entry in either direction.
Follows(A, dir, i, j) == A[i, j] # 0 \/ (~dir /\ A[j, i] # 0)

RECURSIVE Closure(_, _, _)
Closure(R, n, k) ==
    IF k = n THEN R
    ELSE Closure([p \in Vertices(n) \X Vertices(n) |->
                     R[p] \/ (R[p[1], k] /\ R[k, p[2]])], n, k + 1)

Reach(A, n, dir) ==
    Closure([p \in Vertices(n) \X Vertices(n) |->
                p[1] = p[2] \/ Follows(A, dir, p[1], p[2])], n, 0)

\* The number of labels used by the label array l.
NumLabels(l) == Cardinality(Range(l))

\* The label arrays the finder may return: equal labels exactly for mutually
\* reachable vertices, and the labels used are 0..nc-1 in some order.
LabelArrays(A, n, dir) ==
    LET R == Reach(A, n, dir)
    IN  {l \in [1..n -> Vertices(n)] :
            /\ \A i, j \in 1..n :
                  (l[i] = l[j]) <=> (R[i - 1, j - 1] /\ R[j - 1, i - 1])
            /\ Range(l) = Vertices(NumLabels(l))}

\* The pairs <<nc, labels>> a call may return.
connected_components(A, n, dir) ==
    {<<NumLabels(l), l>> : l \in LabelArrays(A, n, dir)}

(***************************************************************************)
(* numpy and Python helpers used by connected_sets                         *)
(***************************************************************************)

\* np.arange(n)
arange(n) == [k \in 1..n |-> k - 1]

\* np.argsort(a): a permutation of the positions that sorts a; the default
\* sort kind is not stable, so equal labels may come in any order.
argsort(a) ==
    {p \in [1..Len(a) -> Vertices(Len(a))] :
        /\ \A k1, k2 \in 1..Len(a) : k1 # k2 => p[k1] # p[k2]
        /\ \A k \in 1..(Len(a) - 1) : a[p[k] + 1] <= a[p[k + 1] + 1]}

\* The reordering by ind left out.
take_Unordered(a, ind) == a

\* a[ind]: fancy indexing of a one-dimensional array.
take(a, ind) == [k \in 1..Len(ind) |-> a[ind[k] + 1]]

RECURSIVE SeqMax(_)
SeqMax(a) ==
    IF Len(a) = 1 THEN a[1]
    ELSE LET m == SeqMax(Tail(a)) IN IF a[1] > m THEN a[1] ELSE m

\* np.bincount(a)
bincount(a) ==
    IF a = <<>> THEN <<>>
    ELSE [k \in 1..(SeqMax(a) + 1) |->
             Cardinality({p \in 1..Len(a) : a[p] = k - 1})]

RECURSIVE cumsum(_)
\* np.cumsum(a)
cumsum(a) ==
    IF a = <<>> THEN <<>>
    ELSE LET front == cumsum(SubSeq(a, 1, Len(a) - 1))
         IN  Append(front, (IF front = <<>> THEN 0 ELSE front[Len(front)])
                           + a[Len(a)])

\* The slice started one position late.
slice_Late(a, lo, hi) == SubSeq(a, lo + 2, hi)

\* a[lo:hi]
slice(a, lo, hi) == SubSeq(a, lo + 1, hi)

RECURSIVE InsertAscending(_, _)
InsertAscending(x, s) ==
    IF s = <<>> THEN <<x>>
    ELSE IF x <= Head(s) THEN <<x>> \o s
    ELSE <<Head(s)>> \o InsertAscending(x, Tail(s))

\* The sort of a component left out.
np_sort_None(a) == a

RECURSIVE np_sort(_)
\* np.sort(a)
np_sort(a) ==
    IF a = <<>> THEN <<>> ELSE InsertAscending(Head(a), np_sort(Tail(a)))

\* key=lambda x: -len(x)
SizeKey(x) == 0 - Len(x)

RECURSIVE InsertByKey_AfterEqual(_, _)
\* An unstable order: x goes behind the elements of equal key.
InsertByKey_AfterEqual(x, s) ==
    IF s = <<>> THEN <<x>>
    ELSE IF SizeKey(Head(s)) <= SizeKey(x)
         THEN <<Head(s)>> \o InsertByKey_AfterEqual(x, Tail(s))
         ELSE <<x>> \o s

RECURSIVE InsertByKey(_, _)
\* x stood before every element of s: it goes before the first element whose
\* key is not smaller than its own.
InsertByKey(x, s) ==
    IF s = <<>> THEN <<x>>
    ELSE IF SizeKey(Head(s)) < SizeKey(x)
         THEN <<Head(s)>> \o InsertByKey(x, Tail(s))
         ELSE <<x>> \o s

RECURSIVE sorted(_)
\* sorted(cc, key=lambda x: -len(x)): Python's sort is stable.
sorted(s) ==
    IF s = <<>> THEN <<>> ELSE InsertByKey(Head(s), sorted(Tail(s)))

(***************************************************************************)
(* connected_sets                                                          *)
(***************************************************************************)

\* Every slice started at 0 instead of csum[i].
Components_FromZero(nc, states, csum) ==
    [i \in 1..nc |-> np_sort(slice(states, 0, csum[i + 1]))]

\* The loop run over range(nc - 1).
Components_DropLast(nc, states, csum) ==
    [i \in 1..(nc - 1) |-> np_sort(slice(states, csum[i], csum[i + 1]))]

\* The loop over range(nc), before the sort by size.
Components(nc, states, csum) ==
    [i \in 1..nc |-> np_sort(slice(states, csum[i], csum[i + 1]))]

\* Lines 57-86 for the finder's result <<nc, indices>> and the permutation
\* ind chosen by argsort.
GroupAndOrder(n, nc, indices, ind) ==
    LET states == take(arange(n), ind)
        sorted_indices == take(indices, ind)
        count == bincount(sorted_indices)
        csum == <<0>> \o cumsum(count)
    IN  sorted(Components(nc, states, csum))

\* Every list connected_sets(C, directed) may return.
connected_sets(A, n, dir) ==
    UNION {{GroupAndOrder(n, r[1], r[2], ind) : ind \in argsort(r[2])} :
              r \in connected_components(A, n, dir)}

(***************************************************************************)
(* largest_connected_set, largest_connected_submatrix, is_connected        *)
(***************************************************************************)

\* An empty component instead of the IndexError.
First_OrEmpty(list) ==
    IF list = <<>> THEN [error |-> "none", value |-> <<>>]
    ELSE [error |-> "none", value |-> list[1]]

\* cc[0]: an IndexError on the empty list.
First(list) ==
    IF list = <<>> THEN [error |-> "IndexError", value |-> <<>>]
    ELSE [error |-> "none", value |-> list[1]]

\* C_cc[lcc, :]
RowSlice(A, n, sel) ==
    [p \in Vertices(Len(sel)) \X Vertices(n) |-> A[sel[p[1] + 1], p[2]]]

\* C_cc[:, lcc]
ColumnSlice(A, rows, sel) ==
    [p \in Vertices(rows) \X Vertices(Len(sel)) |-> A[p[1], sel[p[2] + 1]]]

\* The columns taken as the first len(lcc) ones.
Submatrix_LeadingColumns(A, n, sel) ==
    ColumnSlice(RowSlice(A, n, sel), Len(sel), arange(Len(sel)))

\* Lines 137-152 for the index array sel.
Submatrix(A, n, sel) == ColumnSlice(RowSlice(A, n, sel), Len(sel), sel)

\* nc <= 1
is_connected_AtMostOne(A, n, dir) ==
    \E r \in connected_components(A, n, dir) : r[1] <= 1

\* nc == 1
is_connected(A, n, dir) ==
    \E r \in connected_components(A, n, dir) : r[1] = 1

\* The index arrays a caller may pass as lcc: distinct valid vertices.
IndexArrays(n) ==
    UNION {{s \in [1..k -> Vertices(n)] :
               \A a, b \in 1..k : a # b => s[a] # s[b]} : k \in 0..n}

(***************************************************************************)
(* Count matrix of a discrete trajectory at a lag time                     *)
(***************************************************************************)

count_matrix(traj, tau, n) ==
    [p \in Vertices(n) \X Vertices(n) |->
        Cardinality({t \in 1..(Len(traj) - tau) :
                        traj[t] = p[1] /\ traj[t + tau] = p[2]})]

Trajectories == UNION {[1..k -> Vertices(NStates)] : k \in 1..MaxT}

(***************************************************************************)
(* State machine                                                           *)
(***************************************************************************)

NoResult ==
    /\ pc = "ready"
    /\ called_finder = FALSE
    /\ labels = <<>>
    /\ cc = <<>>
    /\ lcc = <<>>
    /\ lcc_given = FALSE
    /\ C_cc = NoMatrix
    /\ connected = FALSE
    /\ error = "none"

\* Any square matrix of size 0..MaxM.
Init ==
    /\ M \in 0..MaxM
    /\ C \in Matrices(M)
    /\ directed \in BOOLEAN
    /\ dtraj = <<>>
    /\ lag = 0
    /\ NoResult

\* The count matrix of a trajectory over the states 0 and 1 at a lag time.
InitLag ==
    /\ dtraj \in Trajectories
    /\ lag \in 1..MaxLag
    /\ M = NStates
    /\ C = count_matrix(dtraj, lag, NStates)
    /\ directed \in BOOLEAN
    /\ NoResult

Input == <<C, M, directed, dtraj, lag>>

CallConnectedSets ==
    /\ pc = "ready"
    /\ \E r \in connected_components(C, M, directed) :
          \E ind \in argsort(r[2]) :
             /\ labels' = r[2]
             /\ cc' = GroupAndOrder(M, r[1], r[2], ind)
    /\ called_finder' = TRUE
    /\ pc' = "connected_sets"
    /\ UNCHANGED <<Input, lcc, lcc_given, C_cc, connected, error>>

CallLargestConnectedSet ==
    /\ pc = "ready"
    /\ \E r \in connected_components(C, M, directed) :
          \E ind \in argsort(r[2]) :
             LET first == First(GroupAndOrder(M, r[1], r[2], ind))
             IN  /\ labels' = r[2]
                 /\ lcc' = first.value
                 /\ error' = first.error
    /\ called_finder' = TRUE
    /\ pc' = "largest_connected_set"
    /\ UNCHANGED <<Input, cc, lcc_given, C_cc, connected>>

\* lcc is None
CallLargestConnectedSubmatrix ==
    /\ pc = "ready"
    /\ \E r \in connected_components(C, M, directed) :
          \E ind \in argsort(r[2]) :
             LET first == First(GroupAndOrder(M, r[1], r[2], ind))
             IN  /\ labels' = r[2]
                 /\ lcc' = first.value
                 /\ error' = first.error
                 /\ C_cc' = IF first.error = "none"
                            THEN Submatrix(C, M, first.value)
                            ELSE NoMatrix
    /\ called_finder' = TRUE
    /\ lcc_given' = FALSE
    /\ pc' = "largest_connected_submatrix"
    /\ UNCHANGED <<Input, cc, connected>>

\* lcc is passed by the caller
CallLargestConnectedSubmatrixWith ==
    /\ pc = "ready"
    /\ \E sel \in IndexArrays(M) :
          /\ lcc' = sel
          /\ C_cc' = Submatrix(C, M, sel)
    /\ lcc_given' = TRUE
    /\ pc' = "largest_connected_submatrix"
    /\ UNCHANGED <<Input, called_finder, labels, cc, connected, error>>

CallIsConnected ==
    /\ pc = "ready"
    /\ connected' = is_connected(C, M, directed)
    /\ called_finder' = TRUE
    /\ pc' = "is_connected"
    /\ UNCHANGED <<Input, labels, cc, lcc, lcc_given, C_cc, error>>

Next ==
    \/ CallConnectedSets
    \/ CallLargestConnectedSet
    \/ CallLargestConnectedSubmatrix
    \/ CallLargestConnectedSubmatrixWith
    \/ CallIsConnected

Spec == Init /\ [][Next]_vars

SpecLag == InitLag /\ [][Next]_vars

(***************************************************************************)
(* Properties                                                              *)
(***************************************************************************)

V == Vertices(M)

\* i and j are members of one component of the list.
Together(list, i, j) ==
    \E k \in 1..Len(list) : i \in Range(list[k]) /\ j \in Range(list[k])

\* An edge of C from i to j; with und an edge in either direction.
Edge(und, i, j) == C[i, j] # 0 \/ (und /\ C[j, i] # 0)

RECURSIVE Walk(_, _, _)
\* The vertices reached from the set S along at most k edges.
Walk(und, S, k) ==
    IF k = 0 THEN S
    ELSE Walk(und, S \cup {j \in V : \E i \in S : Edge(und, i, j)}, k - 1)

\* j is reached from i along edges (the empty path included).
Reaches(und, i, j) == j \in Walk(und, {i}, M)

\* C1: with directed = True two vertices lie in one component of the result
\* of connected_sets exactly when each is reached from the other along edges
\* followed in their direction.
C1_StrongComponents ==
    (pc = "connected_sets" /\ directed) =>
        \A i, j \in V :
            Together(cc, i, j) <=> (Reaches(FALSE, i, j) /\ Reaches(FALSE, j, i))

\* A directed result with a vertex that reaches another one without being
\* reached back, and a component of two vertices.
C1_Witness ==
    /\ pc = "connected_sets" /\ directed /\ M = 3
    /\ \E i, j \in V : Reaches(FALSE, i, j) /\ ~Reaches(FALSE, j, i)
    /\ \E k \in 1..Len(cc) : Len(cc[k]) = 2

\* The 3-vertex graph with the edges 0->1, 1->0 and 1->2.
ExampleGraph ==
    [p \in Vertices(3) \X Vertices(3) |->
        IF p \in {<<0, 1>>, <<1, 0>>, <<1, 2>>} THEN 1 ELSE 0]

\* C2: with directed = False two vertices lie in one component exactly when
\* a path that ignores edge direction joins them; the example graph gives
\* [[0,1],[2]] with directed = True and [[0,1,2]] with directed = False.
C2_UndirectedComponents ==
    /\ (pc = "connected_sets" /\ ~directed) =>
          \A i, j \in V : Together(cc, i, j) <=> Reaches(TRUE, i, j)
    /\ (pc = "connected_sets" /\ M = 3 /\ C = ExampleGraph) =>
          cc = IF directed THEN <<(<<0, 1>>), (<<2>>)>> ELSE <<(<<0, 1, 2>>)>>

\* The undirected result for the example graph.
C2_Witness ==
    pc = "connected_sets" /\ ~directed /\ M = 3 /\ C = ExampleGraph

\* The number of places of the list that hold the vertex v.
Places(list, v) ==
    Cardinality({q \in (1..Len(list)) \X (1..MaxM + 1) :
                    q[2] <= Len(list[q[1]]) /\ list[q[1]][q[2]] = v})

\* C3: the components returned by connected_sets partition the vertex set:
\* every vertex occurs in exactly one place, no other index occurs and no
\* component is empty.
C3_Partition ==
    pc = "connected_sets" =>
        /\ \A v \in V : Places(cc, v) = 1
        /\ \A k \in 1..Len(cc) : Range(cc[k]) \subseteq V /\ Len(cc[k]) >= 1

\* A result of several components, one of them with several vertices.
C3_Witness ==
    /\ pc = "connected_sets" /\ M = 3 /\ Len(cc) = 2

\* The label the finder gave to the component comp.
LabelOf(comp) == labels[comp[1] + 1]

\* The number of vertices that carry the label of the vertex v.
ClassSize(v) == Cardinality({u \in V : labels[u + 1] = labels[v + 1]})

\* C4: the list returned by connected_sets is ordered by non-increasing size,
\* components of equal size by ascending label; largest_connected_set
\* returns a component of maximal size, among several the one with the
\* smallest label.
C4_SizeOrder ==
    /\ pc = "connected_sets" =>
          \A k \in 1..(Len(cc) - 1) :
              \/ Len(cc[k]) > Len(cc[k + 1])
              \/ Len(cc[k]) = Len(cc[k + 1]) /\ LabelOf(cc[k]) < LabelOf(cc[k + 1])
    /\ (pc = "largest_connected_set" /\ error = "none") =>
          /\ Range(lcc) = {u \in V : labels[u + 1] = LabelOf(lcc)}
          /\ \A v \in V :
                \/ ClassSize(v) < Len(lcc)
                \/ ClassSize(v) = Len(lcc) /\ LabelOf(lcc) <= labels[v + 1]

\* Two components of equal size whose order by label is not the order of
\* their smallest vertices.
C4_Witness ==
    /\ pc = "connected_sets" /\ Len(cc) = 3
    /\ Len(cc[2]) = Len(cc[3])
    /\ cc[2][1] > cc[3][1]

\* The values largest_connected_set(A, dir) may return.
LargestSetsOf(A, n, dir) ==
    {First(list).value : list \in {l \in connected_sets(A, n, dir) : l # <<>>}}

LargestSets == LargestSetsOf(C, M, directed)

\* C5: largest_connected_submatrix returns the K x K matrix, K = len(lcc),
\* with entry (a,b) equal to C[lcc[a], lcc[b]]; lcc is the caller's index
\* array or, when omitted, the largest connected set.
C5_InducedSubmatrix ==
    (pc = "largest_connected_submatrix" /\ error = "none") =>
        /\ DOMAIN C_cc = Vertices(Len(lcc)) \X Vertices(Len(lcc))
        /\ \A a, b \in Vertices(Len(lcc)) : C_cc[a, b] = C[lcc[a + 1], lcc[b + 1]]
        /\ ~lcc_given => lcc \in LargestSets

\* An index array that is not ascending and leaves out a vertex with edges
\* to and from the retained ones.
C5_Witness ==
    /\ pc = "largest_connected_submatrix" /\ lcc_given /\ M = 3
    /\ lcc = <<2, 0>>
    /\ C[1, 0] # 0 /\ C[2, 1] # 0 /\ C[0, 2] # 0 /\ C[2, 0] = 0

\* C6: the matrix restricted to its largest connected set is connected.
C6_RestrictionConnected ==
    (pc = "largest_connected_submatrix" /\ ~lcc_given /\ M >= 1) =>
        /\ error = "none"
        /\ is_connected(C_cc, Len(lcc), directed)

\* A restriction of a matrix that is not connected to two of three vertices.
C6_Witness ==
    /\ pc = "largest_connected_submatrix" /\ ~lcc_given /\ M = 3
    /\ Len(lcc) = 2
    /\ ~is_connected(C, M, directed)

\* C7: is_connected is true exactly when connected_sets has exactly one
\* component, which then holds every vertex.
C7_ConnectedIffOneComponent ==
    pc = "is_connected" =>
        \A list \in connected_sets(C, M, directed) :
            /\ connected <=> (Len(list) = 1)
            /\ connected <=> (\E k \in 1..Len(list) : Range(list[k]) = V /\ V # {})

\* A connected and a disconnected answer.
C7_Witness ==
    pc = "is_connected" /\ connected /\ M = 3 /\ directed /\ C[0, 2] = 0

\* C8: for the empty matrix connected_sets returns the empty list and
\* is_connected returns false, both without an error.
C8_EmptyMatrix ==
    M = 0 =>
        /\ pc = "connected_sets" => (cc = <<>> /\ error = "none")
        /\ pc = "is_connected" => (~connected /\ error = "none")
        /\ connected_sets(C, M, directed) = {<<>>}
        /\ ~is_connected(C, M, directed)

\* is_connected has answered for the empty matrix.
C8_Witness ==
    M = 0 /\ pc = "is_connected" /\ ~connected

\* The sequence of the test.
TestTrajectory == <<0, 1, 1, 1, 0>>

\* C9: for the sequence [0,1,1,1,0] the largest connected set (directed) has
\* at least two states exactly at the lags 1, 2, 3 and one state at the lags
\* 4..8; at lag 1 is_connected is true and the set is [0,1].
C9_UsableLags ==
    (dtraj = TestTrajectory /\ directed) =>
        /\ pc = "largest_connected_set" =>
              /\ error = "none"
              /\ (Len(lcc) >= 2) <=> (lag \in {1, 2, 3})
              /\ lag \in 4..MaxLag => Len(lcc) = 1
              /\ lag = 1 => lcc = <<0, 1>>
        /\ (pc = "is_connected" /\ lag = 1) => connected
        /\ pc = "largest_connected_set" =>
              {t \in 1..MaxLag :
                  \A s \in LargestSetsOf(count_matrix(dtraj, t, M), M, directed) :
                      Len(s) >= 2} = {1, 2, 3}

\* The largest connected set at lag 4.
C9_Witness ==
    /\ dtraj = TestTrajectory /\ directed /\ lag = 4
    /\ pc = "largest_connected_set" /\ Len(lcc) = 1

\* C10: for the empty matrix largest_connected_set ends in an IndexError, and
\* so does largest_connected_submatrix without lcc, before any slicing; with
\* lcc given it computes no components and ends without error.
C10_EmptyMatrixIndexError ==
    M = 0 =>
        /\ pc = "largest_connected_set" => error = "IndexError"
        /\ (pc = "largest_connected_submatrix" /\ ~lcc_given) =>
              (error = "IndexError" /\ C_cc = NoMatrix /\ called_finder)
        /\ (pc = "largest_connected_submatrix" /\ lcc_given) =>
              (error = "none" /\ ~called_finder /\ lcc = <<>>)

\* largest_connected_submatrix without lcc has failed on the empty matrix.
C10_Witness ==
    M = 0 /\ pc = "largest_connected_submatrix" /\ ~lcc_given /\ error = "IndexError"

====
